---------------------------- MODULE Spec2Model ----------------------------
(***************************************************************************)
(* Model of TileGrid_Gen: TileGrid(images, options) composes n images into *)
(* a square grid, resize(image, size) crops one image to a square.         *)
(* The image codec (sharp) and the file system are collaborators: whether  *)
(* a read or a decode succeeds is a nondeterministic choice of the         *)
(* environment.  Everything else is the arithmetic and the control flow of *)
(* the source.                                                             *)
(***************************************************************************)
EXTENDS Integers, Sequences, FiniteSets

(* ------------------------------ bounds --------------------------------- *)

\* Longest image list of the concurrent specification (Spec).
MaxImages == 4
\* Longest image list of the geometry specification (GeomSpec).
MaxCount == 17
\* Largest options.output of the geometry specification.
MaxOutput == 40
\* Largest options.padding of the geometry specification.
MaxPadding == 4
\* Largest size argument of resize.
MaxSize == 3

(* ------------------------ values of the tests -------------------------- *)

\* options.output of the "output too small" test.
TestOutput == 10
\* options.padding of the "output too small" test.
TestPadding == 50

(* ------------------------------ values --------------------------------- *)

\* typeof image.data === 'string' | Buffer.isBuffer(image.data) | neither.
DataTypes == {"string", "buffer", "other"}

\* An Input: data is a path string, a byte buffer or something else; bytes
\* names the content the data stands for.
MkInput(type, bytes) == [data |-> [type |-> type, bytes |-> bytes]]

\* An optional field of Options: <<>> when absent, <<v>> when present.
OrDefault(field, default) == IF field = <<>> THEN default ELSE field[1]

NoError == [type |-> "none", image |-> 0]
EmptyInputError == [type |-> "No images provided", image |-> 0]
GeometryError ==
    [type |-> "Output size is too small for the number of images and padding",
     image |-> 0]
InvalidInputError(i) ==
    [type |-> "Invalid image data: must be a file path or Buffer", image |-> i]
\* fs.readFile rejected for image i.
IOError(i) == [type |-> "ENOENT", image |-> i]
\* sharp rejected for image i (0: the composite of the canvas).
CodecError(i) == [type |-> "sharp", image |-> i]

\* An array slot nothing was stored in.
NoTile == [src |-> 0, width |-> 0, height |-> 0]
\* sharp(buffer).resize(size, size, {fit: 'cover'}).png().toBuffer()
ResizedTile(bytes, size) == [src |-> bytes, width |-> size, height |-> size]


(* ------------------------ geometry (lines 16-21) ----------------------- *)

RECURSIVE SqrtFloorFrom(_, _)
SqrtFloorFrom(n, r) ==
    IF (r + 1) * (r + 1) > n THEN r ELSE SqrtFloorFrom(n, r + 1)

\* The integer part of Math.sqrt(n).
SqrtFloor(n) == SqrtFloorFrom(n, 0)

\* Math.ceil(x) of x = Math.sqrt(n): x itself when it is an integer, else
\* the next integer.
MathCeilSqrt(n) ==
    IF SqrtFloor(n) * SqrtFloor(n) = n THEN SqrtFloor(n) ELSE SqrtFloor(n) + 1

\* Mutant: Math.floor in place of Math.ceil.
GridSizeFloor(n) == SqrtFloor(n)

\* const gridSize = Math.ceil(Math.sqrt(images.length));
GridSize(n) == MathCeilSqrt(n)

\* Mutant: Math.ceil in place of Math.floor.
TileSizeCeil(output, padding, g) == -((-(output - padding * (g + 1))) \div g)

\* const tileSize = Math.floor((output - padding * (gridSize + 1)) / gridSize);
TileSize(output, padding, g) == (output - padding * (g + 1)) \div g

\* Mutant: a tile size of zero is let through.
TileTooSmallStrict(t) == t < 0

\* if (tileSize <= 0)
TileTooSmall(t) == t <= 0

\* Mutant: the geometry check runs before the empty check; with no image
\* gridSize is 0 and the quotient is -Infinity, NaN or +Infinity.
ValidationErrorSwapped(n, output, padding) ==
    IF n = 0
    THEN IF output - padding < 0 THEN GeometryError ELSE EmptyInputError
    ELSE IF TileTooSmall(TileSize(output, padding, GridSize(n)))
         THEN GeometryError ELSE NoError

\* The error thrown by lines 10-21, NoError when none is.
ValidationError(n, output, padding) ==
    IF n = 0 THEN EmptyInputError
    ELSE IF TileTooSmall(TileSize(output, padding, GridSize(n)))
         THEN GeometryError ELSE NoError

(* ------------------------ placement (lines 55-67) ---------------------- *)

\* const row = Math.floor(index / gridSize);   (index is zero-based)
Row(index, g) == index \div g

\* Mutant: the column is taken modulo gridSize + 1.
ColWide(index, g) == index % (g + 1)

\* const col = index % gridSize;
Col(index, g) == index % g

\* Mutant: the padding between tiles is forgotten.
OffsetNoGap(cell, t, padding) == padding + cell * t

\* padding + col * (tileSize + padding), and the same for the row.
Offset(cell, t, padding) == padding + cell * (t + padding)

\* processed.map((imageBuffer, index) => ({input, left, top}))
Placements(tiles, g, t, padding) ==
    [k \in 1..Len(tiles) |->
        [input |-> tiles[k],
         left  |-> Offset(Col(k - 1, g), t, padding),
         top   |-> Offset(Row(k - 1, g), t, padding)]]

(* ------------------------------- state --------------------------------- *)

VARIABLES
    op,             \* the operation called: "TileGrid" or "resize"
    images,         \* TileGrid: the images argument
    options,        \* TileGrid: the options argument
    pc,             \* where the call stands
    gridSize,       \* TileGrid: const gridSize (0 before line 16)
    tileSize,       \* TileGrid: const tileSize (0 before line 17)
    task,           \* TileGrid: the promise of each per-image callback
    aggregate,      \* TileGrid: the promise Promise.all returned
    processed,      \* TileGrid: const processed
    composite,      \* TileGrid: const composite
    compositeCalls, \* TileGrid: how often .composite(...) was called
    result,         \* TileGrid: the Output returned, <<>> when none
    error,          \* the error the call threw, NoError when none
    image,          \* resize: the image argument
    size,           \* resize: the size argument
    buffer,         \* resize: what was handed to sharp(...), <<>> when nothing
    resized         \* resize: the buffer returned, <<>> when none

vars == <<op, images, options, pc, gridSize, tileSize, task, aggregate,
          processed, composite, compositeCalls, result, error,
          image, size, buffer, resized>>

tileGridVars == <<images, options, gridSize, tileSize, task, aggregate,
                  processed, composite, compositeCalls, result>>
resizeVars == <<image, size, buffer, resized>>

\* const { output, background = 'transparent', padding = 0 } = options;
Output == options.output
Background == OrDefault(options.background, "transparent")
Padding == OrDefault(options.padding, 0)

IdleTask == [state |-> "idle", value |-> NoTile, reason |-> NoError]
NoAggregate(n) ==
    [state |-> "none", values |-> [k \in 1..n |-> NoTile], reason |-> NoError]
PendingAll(n) ==
    [state |-> "pending", values |-> [k \in 1..n |-> NoTile], reason |-> NoError]

(* -------------------- the per-image callback (24-42) ------------------- *)

\* Lines 35-41 up to the await: sharp(buffer).resize(...).png().toBuffer()
\* is called synchronously.  sharp throws at once on a buffer it refuses
\* (an empty one), which rejects the callback's promise there and then;
\* otherwise the callback waits for toBuffer().
SharpPipeline(i, throws) ==
    IF throws
    THEN [state |-> "rejected", value |-> NoTile, reason |-> CodecError(i)]
    ELSE [state |-> "resizing", value |-> NoTile, reason |-> NoError]

\* The callback up to its first await: a path is being read, a buffer has
\* gone to sharp (which has thrown at once or is working), anything else
\* has thrown.
StartTask(img, i, throws) ==
    IF img.data.type = "string"
    THEN [state |-> "reading", value |-> NoTile, reason |-> NoError]
    ELSE IF img.data.type = "buffer"
    THEN SharpPipeline(i, throws)
    ELSE [state |-> "rejected", value |-> NoTile,
          reason |-> InvalidInputError(i)]

(* --------------------------- Promise.all (23) -------------------------- *)

\* Mutant: results are collected in the order the tasks complete.
CollectInCompletionOrder(values, i, v) ==
    LET free == {k \in 1..Len(values) : values[k] = NoTile}
        slot == IF free = {} THEN i
                ELSE CHOOSE k \in free : \A m \in free : k <= m
    IN  [values EXCEPT ![slot] = v]

\* Promise.all stores the value of the i-th promise at index i.
CollectResult(values, i, v) == [values EXCEPT ![i] = v]

\* Mutant: the aggregate fulfils as soon as one promise has (Promise.any).
AnyFulfilled(t) == \E k \in 1..Len(t) : t[k].state = "fulfilled"

\* Promise.all fulfils when no promise is left unfulfilled.
AllFulfilled(t) == \A k \in 1..Len(t) : t[k].state = "fulfilled"

\* Mutant: a later rejection replaces the reason of an earlier one.
RejectWithLast(agg, reason) ==
    IF agg.state = "fulfilled" THEN agg
    ELSE [agg EXCEPT !.state = "rejected", !.reason = reason]

\* reject(reason) of the aggregate: settles it if it is pending, else no-op.
RejectWith(agg, reason) ==
    IF agg.state # "pending" THEN agg
    ELSE [agg EXCEPT !.state = "rejected", !.reason = reason]

\* The reaction of Promise.all to promise i of t having settled.
React(agg, t, i) ==
    IF t[i].state = "rejected" THEN RejectWith(agg, t[i].reason)
    ELSE IF agg.state # "pending" THEN agg
    ELSE LET vals == CollectResult(agg.values, i, t[i].value)
         IN  [agg EXCEPT !.values = vals,
                         !.state = IF AllFulfilled(t) THEN "fulfilled"
                                   ELSE "pending"]

\* The reactions to the promises that are already rejected when Promise.all
\* subscribes to them, in index order.
RECURSIVE ReactToSettled(_, _, _)
ReactToSettled(agg, t, i) ==
    IF i > Len(t) THEN agg
    ELSE ReactToSettled(IF t[i].state = "rejected" THEN React(agg, t, i)
                        ELSE agg, t, i + 1)

(* ----------------------------- TileGrid -------------------------------- *)

\* Lines 10-21: the empty check, the geometry and the geometry check.
Validate ==
    /\ op = "TileGrid" /\ pc = "start"
    /\ LET n == Len(images)
           e == ValidationError(n, Output, Padding)
       IN  /\ gridSize' = IF n = 0 THEN gridSize ELSE GridSize(n)
           /\ tileSize' = IF n = 0 THEN tileSize
                          ELSE TileSize(Output, Padding, GridSize(n))
           /\ error' = e
           /\ pc' = IF e = NoError THEN "fanout" ELSE "failed"
    /\ UNCHANGED <<op, images, options, task, aggregate, processed, composite,
                   compositeCalls, result>>
    /\ UNCHANGED resizeVars

\* The images whose data is a Buffer: their callback reaches sharp while
\* images.map runs.
BufferImages == {k \in 1..Len(images) : images[k].data.type = "buffer"}

\* Lines 23-41: images.map starts every callback, each runs to its first
\* await (or throws), and Promise.all subscribes to the promises.  thrown
\* are the Buffer images on which sharp throws synchronously.
FanOut(thrown) ==
    /\ op = "TileGrid" /\ pc = "fanout"
    /\ thrown \subseteq BufferImages
    /\ LET t == [k \in 1..Len(images) |->
                    StartTask(images[k], k, k \in thrown)]
       IN  /\ task' = t
           /\ aggregate' = ReactToSettled(PendingAll(Len(images)), t, 1)
    /\ pc' = "awaiting"
    /\ UNCHANGED <<op, images, options, gridSize, tileSize, processed,
                   composite, compositeCalls, result, error>>
    /\ UNCHANGED resizeVars

\* Task i settles or moves on: task i becomes nt and Promise.all reacts.
\* Nothing cancels a task: it runs on after the call has failed.
TaskStep(i, nt) ==
    LET t == [task EXCEPT ![i] = nt]
    IN  /\ task' = t
        /\ aggregate' = IF nt.state \in {"fulfilled", "rejected"}
                        THEN React(aggregate, t, i) ELSE aggregate
        /\ UNCHANGED <<op, images, options, pc, gridSize, tileSize, processed,
                       composite, compositeCalls, result, error>>
        /\ UNCHANGED resizeVars

\* Lines 28-41: fs.readFile(image.data) of image i completes; on success
\* the callback goes on, synchronously, to sharp, which throws at once or
\* starts working.
ReadDone(i, ok, throws) ==
    /\ op = "TileGrid" /\ i \in DOMAIN task
    /\ task[i].state = "reading"
    /\ TaskStep(i, IF ok THEN SharpPipeline(i, throws)
                   ELSE [task[i] EXCEPT !.state = "rejected",
                                        !.reason = IOError(i)])

\* Lines 35-41: the toBuffer() of sharp(buffer).resize(...).png() of image i
\* completes.
ResizeDone(i, ok) ==
    /\ op = "TileGrid" /\ i \in DOMAIN task
    /\ task[i].state = "resizing"
    /\ TaskStep(i, IF ok
                   THEN [task[i] EXCEPT
                            !.state = "fulfilled",
                            !.value = ResizedTile(images[i].data.bytes, tileSize)]
                   ELSE [task[i] EXCEPT !.state = "rejected",
                                        !.reason = CodecError(i)])

\* Line 23 resumes once the aggregate has settled.  Rejected: the await
\* throws its reason.  Fulfilled: lines 46-70 build the canvas and the
\* placements and hand them to .composite(...); with a positive integer
\* output and a colour sharp knows, as in every initial state here, these
\* synchronous calls do not throw.
AwaitResume ==
    /\ op = "TileGrid" /\ pc = "awaiting"
    /\ aggregate.state # "pending"
    /\ IF aggregate.state = "rejected"
       THEN /\ pc' = "failed"
            /\ error' = aggregate.reason
            /\ UNCHANGED <<processed, composite, compositeCalls>>
       ELSE /\ pc' = "encoding"
            /\ processed' = aggregate.values
            /\ composite' = Placements(aggregate.values, gridSize, tileSize,
                                       Padding)
            /\ compositeCalls' = compositeCalls + 1
            /\ UNCHANGED error
    /\ UNCHANGED <<op, images, options, gridSize, tileSize, task, aggregate,
                   result>>
    /\ UNCHANGED resizeVars

\* Lines 69-78: the encoding of the canvas completes; on success the Output
\* is returned.
EncodeDone(ok) ==
    /\ op = "TileGrid" /\ pc = "encoding"
    /\ IF ok
       THEN /\ pc' = "done"
            /\ result' = << [buffer |-> [width |-> Output, height |-> Output,
                                         background |-> Background,
                                         tiles |-> composite],
                             gridSize |-> gridSize,
                             count |-> Len(images)] >>
            /\ UNCHANGED error
       ELSE /\ pc' = "failed"
            /\ error' = CodecError(0)
            /\ UNCHANGED result
    /\ UNCHANGED <<op, images, options, gridSize, tileSize, task, aggregate,
                   processed, composite, compositeCalls>>
    /\ UNCHANGED resizeVars

(* ------------------------------ resize --------------------------------- *)

\* fs.readFile resolves with the bytes of the file.
FileBytes(data) == [type |-> "buffer", bytes |-> data.bytes]

\* Lines 90-96 up to the await: buf is handed to sharp(...), which throws
\* at once or starts working.
ResizeToSharp(buf, throws) ==
    /\ buffer' = <<buf>>
    /\ IF throws
       THEN pc' = "failed" /\ error' = CodecError(0)
       ELSE pc' = "codec" /\ UNCHANGED error

\* Lines 84-96: a path is read; anything else is taken as the buffer and
\* goes to sharp.
ResizeStart(throws) ==
    /\ op = "resize" /\ pc = "start"
    /\ IF image.data.type = "string"
       THEN pc' = "reading" /\ UNCHANGED <<buffer, error>>
       ELSE ResizeToSharp(image.data, throws)
    /\ UNCHANGED <<op, image, size, resized>>
    /\ UNCHANGED tileGridVars

\* Lines 85-96: fs.readFile(image.data) completes; on success its bytes go
\* to sharp.
ResizeRead(ok, throws) ==
    /\ op = "resize" /\ pc = "reading"
    /\ IF ok
       THEN ResizeToSharp(FileBytes(image.data), throws)
       ELSE pc' = "failed" /\ error' = IOError(0) /\ UNCHANGED buffer
    /\ UNCHANGED <<op, image, size, resized>>
    /\ UNCHANGED tileGridVars

\* Lines 90-96: the toBuffer() of sharp(buffer).resize(size, size, ...).png()
\* completes.
ResizeCodec(ok) ==
    /\ op = "resize" /\ pc = "codec"
    /\ IF ok
       THEN /\ pc' = "done"
            /\ resized' = <<ResizedTile(buffer[1].bytes, size)>>
            /\ UNCHANGED error
       ELSE pc' = "failed" /\ error' = CodecError(0) /\ UNCHANGED resized
    /\ UNCHANGED <<op, image, size, buffer>>
    /\ UNCHANGED tileGridVars

(* ------------------------- initial states ------------------------------ *)

\* The image lists of length n whose data have the given types; image k
\* stands for content k.
ImageLists(n, types) ==
    {[k \in 1..n |-> MkInput(f[k], k)] : f \in [1..n -> types]}

\* A call TileGrid(imgs, opts) about to run.
CallTileGrid(imgs, opts) ==
    /\ op = "TileGrid" /\ pc = "start"
    /\ images = imgs /\ options = opts
    /\ gridSize = 0 /\ tileSize = 0
    /\ task = [k \in 1..Len(imgs) |-> IdleTask]
    /\ aggregate = NoAggregate(Len(imgs))
    /\ processed = <<>> /\ composite = <<>> /\ compositeCalls = 0
    /\ result = <<>> /\ error = NoError
    /\ image = MkInput("buffer", 0) /\ size = 0
    /\ buffer = <<>> /\ resized = <<>>

\* A call resize(img, sz) about to run.
CallResize(img, sz) ==
    /\ op = "resize" /\ pc = "start"
    /\ image = img /\ size = sz
    /\ buffer = <<>> /\ resized = <<>> /\ error = NoError
    /\ images = <<>>
    /\ options = [output |-> 1, padding |-> <<>>, background |-> <<>>]
    /\ gridSize = 0 /\ tileSize = 0
    /\ task = <<>> /\ aggregate = NoAggregate(0)
    /\ processed = <<>> /\ composite = <<>> /\ compositeCalls = 0
    /\ result = <<>>

\* Spec: every image list of up to MaxImages inputs of any type, under
\* options that make the geometry feasible or not; or one call of resize.
SpecOptions ==
    [output : {TestOutput},
     padding : {<<>>, <<2>>, <<TestPadding>>},
     background : {<<>>, <<"#ffffff">>}]

Init ==
    \/ \E n \in 0..MaxImages :
         \E imgs \in ImageLists(n, DataTypes), opts \in SpecOptions :
            CallTileGrid(imgs, opts)
    \/ \E t \in DataTypes, sz \in 1..MaxSize : CallResize(MkInput(t, 1), sz)

Next ==
    \/ Validate
    \/ \E thrown \in SUBSET BufferImages : FanOut(thrown)
    \/ \E i \in DOMAIN task, ok \in BOOLEAN, throws \in BOOLEAN :
            ReadDone(i, ok, throws)
    \/ \E i \in DOMAIN task, ok \in BOOLEAN : ResizeDone(i, ok)
    \/ AwaitResume
    \/ \E ok \in BOOLEAN : EncodeDone(ok)
    \/ \E throws \in BOOLEAN : ResizeStart(throws)
    \/ \E ok \in BOOLEAN, throws \in BOOLEAN : ResizeRead(ok, throws)
    \/ \E ok \in BOOLEAN : ResizeCodec(ok)

Spec == Init /\ [][Next]_vars

\* FairSpec: the event loop runs every continuation that is ready: a
\* settled aggregate resumes the await of line 23.
FairSpec == Spec /\ WF_vars(AwaitResume)

\* GeomSpec: the successful path of TileGrid over a wide range of image
\* counts, output sizes and paddings.  The inputs are buffers, every resize
\* succeeds and the tasks complete in index order.
GeomOptions ==
    [output : 1..MaxOutput,
     padding : {<<>>} \cup {<<p>> : p \in 0..MaxPadding} \cup {<<TestPadding>>},
     background : {<<>>}]

GeomInit ==
    \E n \in 0..MaxCount :
        \E imgs \in ImageLists(n, {"buffer"}), opts \in GeomOptions :
            CallTileGrid(imgs, opts)

InOrder(i) == \A k \in 1..(i - 1) : task[k].state = "fulfilled"

GeomNext ==
    \/ Validate
    \/ FanOut({})
    \/ \E i \in DOMAIN task : InOrder(i) /\ ResizeDone(i, TRUE)
    \/ AwaitResume
    \/ EncodeDone(TRUE)

GeomSpec == GeomInit /\ [][GeomNext]_vars

(* ------------------------------ claims --------------------------------- *)

\* The state of a call of TileGrid that has returned an Output.
Succeeded == op = "TileGrid" /\ pc = "done"

\* ceil(sqrt(n)) as the claims state it: the smallest positive g with
\* g*g >= n.
CeilSqrtOf(n) == CHOOSE g \in 1..n : g * g >= n /\ (g - 1) * (g - 1) < n

\* floor(x / g) as the claims state it: the integer t with g*t <= x < g*(t+1).
FloorOf(x, g) ==
    CHOOSE t \in (IF x < 0 THEN x ELSE 0)..(IF x < 0 THEN 0 ELSE x) :
        g * t <= x /\ x < g * (t + 1)

\* C1: on every successful call the returned gridSize is ceil(sqrt(n)): the
\* smallest positive g with g*g >= n; n = 1 gives 1, n = 2..4 gives 2,
\* n = 5..9 gives 3.
C1_GridSizeIsCeilSqrt ==
    Succeeded =>
        LET n == Len(images)
            g == result[1].gridSize
        IN  /\ g >= 1 /\ g * g >= n /\ (g - 1) * (g - 1) < n
            /\ (n = 1 => g = 1)
            /\ (n \in 2..4 => g = 2)
            /\ (n \in 5..9 => g = 3)

C1_Witness ==
    Succeeded /\ Len(images) = 5 /\ result[1].gridSize = 3

\* C2: with an empty image list TileGrid fails with 'No images provided'
\* whatever the options are, and returns no Output.
C2_EmptyInputFails ==
    (op = "TileGrid" /\ Len(images) = 0) =>
        /\ result = <<>>
        /\ pc \in {"start", "failed"}
        /\ (pc = "failed" => error = EmptyInputError)

C2_Witness ==
    /\ op = "TileGrid" /\ Len(images) = 0
    /\ options.output = TestOutput /\ options.padding = <<TestPadding>>
    /\ pc = "failed" /\ error = EmptyInputError

\* C3: with n >= 1 images, g = ceil(sqrt(n)) and
\* tileSize = floor((output - padding*(g+1)) / g), TileGrid fails with the
\* geometry error if and only if tileSize <= 0, and then no per-image task
\* has started; output = 10 with padding = 50 always fails so.
C3_GeometryErrorIffTileSizeNotPositive ==
    (op = "TileGrid" /\ Len(images) >= 1 /\ pc # "start") =>
        LET g == CeilSqrtOf(Len(images))
            t == FloorOf(Output - Padding * (g + 1), g)
        IN  /\ (error = GeometryError) <=> (t <= 0)
            /\ (error = GeometryError =>
                    /\ pc = "failed" /\ result = <<>>
                    /\ aggregate.state = "none"
                    /\ \A k \in DOMAIN task : task[k].state = "idle")
            /\ (Output = TestOutput /\ Padding = TestPadding
                    => error = GeometryError)

C3_Witness ==
    /\ op = "TileGrid" /\ Len(images) = 5
    /\ Output = TestOutput /\ Padding = TestPadding
    /\ pc = "failed" /\ error = GeometryError

\* The margins of the grid of cells of a successful call: between adjacent
\* cells, and from the outer cells to the four edges of the canvas.
GapsArePadding ==
    \A c \in 0..(gridSize - 2) :
        Offset(c + 1, tileSize, Padding)
            - (Offset(c, tileSize, Padding) + tileSize) = Padding
NearMargin == Offset(0, tileSize, Padding)
FarMargin == Output - (Offset(gridSize - 1, tileSize, Padding) + tileSize)
PlacedOnCells ==
    \A k \in DOMAIN composite :
        /\ composite[k].left = Offset((k - 1) % gridSize, tileSize, Padding)
        /\ composite[k].top = Offset((k - 1) \div gridSize, tileSize, Padding)

\* C4 as stated: the gaps between adjacent cells and the margins at all
\* four edges of the canvas are exactly padding.
C4_UniformMargins ==
    Succeeded =>
        /\ PlacedOnCells /\ GapsArePadding
        /\ NearMargin = Padding
        /\ FarMargin = Padding

\* C4 as amended: the gaps between adjacent cells and the left and top
\* margins are exactly padding; the right and bottom margins are padding
\* plus the remainder of (output - padding*(g+1)) divided by g, which is at
\* least padding and less than padding + g.
C4_MarginsWithRemainder ==
    Succeeded =>
        /\ PlacedOnCells /\ GapsArePadding
        /\ NearMargin = Padding
        /\ FarMargin = Padding + ((Output - Padding * (gridSize + 1)) % gridSize)
        /\ FarMargin >= Padding /\ FarMargin < Padding + gridSize

C4_Witness ==
    /\ Succeeded /\ Len(images) = 3
    /\ Padding = 1 /\ FarMargin = Padding + 1

\* The images whose per-image task has failed.
Failed(t) == {k \in DOMAIN t : t[k].state = "rejected"}
Lowest(S) == CHOOSE k \in S : \A m \in S : k <= m

\* C5, in every state: once a per-image task has failed the aggregate is
\* rejected with the error of a failed image, the call is waiting or has
\* failed with exactly that error, .composite was never called and no Output
\* exists.
C5_FailFastState ==
    (op = "TileGrid" /\ Failed(task) # {}) =>
        /\ aggregate.state = "rejected"
        /\ \E k \in Failed(task) : aggregate.reason = task[k].reason
        /\ pc \in {"awaiting", "failed"}
        /\ (pc = "failed" => error = aggregate.reason)
        /\ compositeCalls = 0 /\ composite = <<>> /\ result = <<>>

\* C5, in every step: the error is the one of the first task to fail (of
\* the lowest index among those that throw while images.map runs), and
\* no later failure or success of a sibling replaces it.
C5_FailFastStep ==
    /\ (Failed(task) = {} /\ Failed(task') # {})
            => aggregate'.reason = task'[Lowest(Failed(task'))].reason
    /\ (Failed(task) # {} => aggregate' = aggregate)
    /\ (pc = "failed" => pc' = "failed" /\ error' = error)

\* C5: if a per-image task fails, then under every interleaving the call
\* fails with one error, the error of the first image to fail; the
\* compositing step never runs and no Output is returned.
C5_FailFast ==
    /\ []C5_FailFastState
    /\ [][C5_FailFastStep]_vars
    /\ (op = "TileGrid" /\ Failed(task) # {}) ~> (pc = "failed")

\* Two tasks have failed, the second after the first, and the call has
\* failed with the error of one of them.
C5_Witness ==
    /\ op = "TileGrid" /\ pc = "failed"
    /\ Cardinality(Failed(task)) >= 2
    /\ task[1].state = "fulfilled"
    /\ error = IOError(3)
    /\ task[2].reason = CodecError(2)

\* The placements TileGrid is to produce for its inputs.
ExpectedTile(k) == ResizedTile(images[k].data.bytes, tileSize)
ExpectedPlacements ==
    [k \in 1..Len(images) |->
        [input |-> ExpectedTile(k),
         left |-> Padding + ((k - 1) % gridSize) * (tileSize + Padding),
         top |-> Padding + ((k - 1) \div gridSize) * (tileSize + Padding)]]

\* C6: whatever the order in which the tasks complete, slot i of the
\* collected results only ever holds the resized image of images[i], and
\* the placements handed to the compositing step, and those of the Output,
\* are the ones the inputs alone determine.
C6_PlacementInInputOrder ==
    op = "TileGrid" =>
        /\ \A k \in DOMAIN aggregate.values :
               aggregate.values[k] \in {NoTile, ExpectedTile(k)}
        /\ (pc \in {"encoding", "done"} =>
               /\ processed = [k \in 1..Len(images) |-> ExpectedTile(k)]
               /\ composite = ExpectedPlacements)
        /\ (pc = "done" => result[1].buffer.tiles = ExpectedPlacements)

\* The tasks complete out of input order: image 3 has been resized and
\* collected at index 3 while the file of image 1 is still being read.
C6_Witness ==
    /\ op = "TileGrid" /\ Len(images) = 3
    /\ aggregate.state = "pending"
    /\ task[1].state = "reading" /\ aggregate.values[1] = NoTile
    /\ task[3].state = "fulfilled" /\ aggregate.values[3] = ExpectedTile(3)

\* C7: resize fails with the invalid-input error, before anything is handed
\* to sharp, when image.data is neither a path nor a buffer.
C7_ResizeRejectsInvalidInput ==
    (op = "resize" /\ image.data.type = "other" /\ pc # "start") =>
        /\ pc = "failed"
        /\ error = InvalidInputError(0)
        /\ buffer = <<>>

\* The cell (row, col) of a placement, read back from its position.
CellOf(e) ==
    [row |-> (e.top - Padding) \div (tileSize + Padding),
     col |-> (e.left - Padding) \div (tileSize + Padding)]
OnCell(e) ==
    /\ (e.top - Padding) % (tileSize + Padding) = 0
    /\ (e.left - Padding) % (tileSize + Padding) = 0
Cells == (0..(gridSize - 1)) \X (0..(gridSize - 1))
TakenCells ==
    {<<CellOf(result[1].buffer.tiles[k]).row, CellOf(result[1].buffer.tiles[k]).col>> :
        k \in DOMAIN result[1].buffer.tiles}

\* C8: a successful call on n images returns count = n and places every
\* input exactly once, on the first n cells of the grid in row-major order;
\* the other g*g - n cells receive nothing.
C8_EveryInputPlacedOnce ==
    Succeeded =>
        LET n == Len(images)
            tiles == result[1].buffer.tiles
        IN  /\ result[1].count = n /\ Len(tiles) = n
            /\ \A k \in 1..n :
                   /\ OnCell(tiles[k])
                   /\ tiles[k].input.src = images[k].data.bytes
                   /\ CellOf(tiles[k]).row \in 0..(gridSize - 1)
                   /\ CellOf(tiles[k]).col \in 0..(gridSize - 1)
                   /\ CellOf(tiles[k]).row * gridSize + CellOf(tiles[k]).col
                          = k - 1
            /\ \A k, m \in 1..n : k # m => CellOf(tiles[k]) # CellOf(tiles[m])
            /\ Cardinality(TakenCells) = n
            /\ Cardinality(Cells \ TakenCells) = gridSize * gridSize - n
            /\ (n = 3 => result[1].gridSize = 2 /\ result[1].count = 3
                         /\ Cardinality(Cells \ TakenCells) = 1)

C8_Witness ==
    /\ Succeeded /\ Len(images) = 3
    /\ result[1].count = 3 /\ result[1].gridSize = 2
    /\ Cells \ TakenCells = {<<1, 1>>}

\* C9: in a successful call the tileSize x tileSize rectangles of two
\* different inputs do not overlap and every rectangle lies inside the
\* output x output canvas.
C9_TilesDisjointInsideCanvas ==
    Succeeded =>
        LET tiles == result[1].buffer.tiles
            w == result[1].buffer.width
            h == result[1].buffer.height
        IN  /\ \A k \in DOMAIN tiles :
                   /\ tiles[k].input.width = tileSize
                   /\ tiles[k].input.height = tileSize
                   /\ 0 <= tiles[k].left /\ 0 <= tiles[k].top
                   /\ tiles[k].left + tileSize <= w
                   /\ tiles[k].top + tileSize <= h
            /\ \A k, m \in DOMAIN tiles : k # m =>
                   \/ tiles[k].left + tileSize <= tiles[m].left
                   \/ tiles[m].left + tileSize <= tiles[k].left
                   \/ tiles[k].top + tileSize <= tiles[m].top
                   \/ tiles[m].top + tileSize <= tiles[k].top

\* Tiles touch (padding 0) and the canvas is filled to its last pixel.
C9_Witness ==
    /\ Succeeded /\ Len(images) = 4 /\ Padding = 0
    /\ result[1].buffer.tiles[4].left + tileSize = Output

\* C10: the compositing step runs at most once, and only when every
\* per-image task has completed successfully; no per-image task starts
\* before the empty-input and geometry checks have passed.
C10_CompositeOnceAfterAllTiles ==
    op = "TileGrid" =>
        /\ compositeCalls \in {0, 1}
        /\ (compositeCalls = 1 <=> pc \in {"encoding", "done"}
                                   \/ (pc = "failed" /\ error = CodecError(0)))
        /\ (compositeCalls = 1 =>
                \A k \in 1..Len(images) : task[k].state = "fulfilled")
        /\ ((\E k \in DOMAIN task : task[k].state # "idle") =>
                /\ Len(images) >= 1 /\ tileSize > 0
                /\ error \notin {EmptyInputError, GeometryError}
                /\ pc \notin {"start", "fanout"})

C10_Witness ==
    /\ op = "TileGrid" /\ pc = "done" /\ compositeCalls = 1
    /\ Len(images) = 4
    /\ \A k \in 1..4 : task[k].state = "fulfilled"

=============================================================================
